---- MODULE Spec2Model ----
(***************************************************************************)
(* Model of payslip_generator.py: process_payroll and the functions it     *)
(* calls (setup_environment, read_employee_data,                           *)
(* generate_payslip_with_design, send_payslip_via_email), together with    *)
(* calculate_net_salary and the Config class of config.py.                 *)
(*                                                                         *)
(* A spreadsheet cell is a record [k, v]: a number ("num"), a text that    *)
(* spells a number ("numstr"), any other text ("str") or a blank cell      *)
(* ("nan", what pandas reads as NaN).                                      *)
(***************************************************************************)
EXTENDS Integers, Sequences, FiniteSets, TLC

VARIABLES env, pc, workbook, df, email_config, success_count, failure_count,
          i, pdf_path, files, outbox, log, error

vars == <<env, pc, workbook, df, email_config, success_count, failure_count,
          i, pdf_path, files, outbox, log, error>>

\* ------------------------------------------------------------------ bounds
\* the largest number of data rows of a workbook
MaxRows == 2
\* the largest number of amount cells of a workbook that are not plain numbers
MaxOdd == 2

\* ------------------------------------------------------------------- cells
Num(v) == [k |-> "num", v |-> v]
NumStr(v) == [k |-> "numstr", v |-> v]
Str(v) == [k |-> "str", v |-> v]
NaN == [k |-> "nan", v |-> 0]

\* os.getenv of a variable that is not set
None == "None"

Range(s) == {s[x] : x \in DOMAIN s}

\* ----------------------------------------------------------- configuration
required_vars == <<"SMTP_SERVER", "SMTP_PORT", "SENDER_EMAIL", "EMAIL_PASSWORD">>

\* the values the environment gives the variables that are set
EnvValue ==
  [v \in Range(required_vars) |->
     CASE v = "SMTP_SERVER" -> "mail.example.org"
       [] v = "SMTP_PORT" -> "2525"
       [] v = "SENDER_EMAIL" -> "payroll@example.org"
       [] v = "EMAIL_PASSWORD" -> "secret"]

Environments == {e \in [Range(required_vars) -> {None} \cup Range(EnvValue)] :
                   \A v \in Range(required_vars) : e[v] \in {None, EnvValue[v]}}

\* config.py: the defaults of class Config
DefaultHost == "smtp.gmail.com"
DefaultPort == 587

\* int() of the port texts that occur
to_int(s) == CASE s = "2525" -> 2525
               [] s = "587" -> 587
               [] OTHER -> -1

\* Config.SMTP_PORT: int(os.getenv('SMTP_PORT', '587'))
Config_SMTP_PORT(e) == IF e["SMTP_PORT"] = None THEN DefaultPort ELSE to_int(e["SMTP_PORT"])

\* mutants of missing_vars
missing_vars_optional(e) ==
  LET Unset(v) == e[v] = None /\ v \in {"SENDER_EMAIL", "EMAIL_PASSWORD"}
  IN SelectSeq(required_vars, Unset)

missing_vars_no_password(e) ==
  LET Unset(v) == e[v] = None /\ v # "EMAIL_PASSWORD"
  IN SelectSeq(required_vars, Unset)

\* setup_environment: the required variables that are not set, in order
missing_vars(e) ==
  LET Unset(v) == e[v] = None
  IN SelectSeq(required_vars, Unset)

\* process_payroll: the mail configuration handed to the delivery
build_email_config(e) == [v \in Range(required_vars) |-> e[v]]

\* ------------------------------------------------------------------ loader
required_columns == <<"Employee ID", "Name", "Email", "Basic Salary", "Allowances", "Deductions">>
amount_columns == <<"Basic Salary", "Allowances", "Deductions">>
NetColumn == "Net Salary"

NoError == [kind |-> "none", names |-> <<>>, n |-> 0]

\* mutant of missing_columns: the last missing column is not reported
missing_columns_short(cols) ==
  LET Absent(c) == c \notin cols
      m == SelectSeq(required_columns, Absent)
  IN IF Len(m) > 1 THEN SubSeq(m, 1, Len(m) - 1) ELSE m

\* read_employee_data: the required columns the header lacks, in order
missing_columns(cols) ==
  LET Absent(c) == c \notin cols
  IN SelectSeq(required_columns, Absent)

\* pd.api.types.is_numeric_dtype of a column: a column read from a sheet has
\* a numeric dtype when it holds numbers and blanks only, and dtype object as
\* soon as one cell is a text (or when it has no cell at all)
is_numeric_dtype(rows, col) ==
  /\ Len(rows) > 0
  /\ \A r \in 1..Len(rows) : rows[r][col].k \in {"num", "nan"}

\* pd.to_numeric(errors="coerce") of one cell
to_numeric(c) ==
  CASE c.k = "num" -> c
    [] c.k = "numstr" -> Num(c.v)
    [] OTHER -> NaN

\* df[df[col].isnull()].shape[0] after the coercion of the column
null_values(rows, col) ==
  Cardinality({r \in 1..Len(rows) : to_numeric(rows[r][col]) = NaN})

\* the check of one amount column: 0 when the column is left alone
invalid_values(rows, col) ==
  IF is_numeric_dtype(rows, col) THEN 0 ELSE null_values(rows, col)

\* the frame after the loop over the amount columns
coerce(rows) ==
  [r \in 1..Len(rows) |->
     [c \in DOMAIN rows[r] |->
        IF c \in Range(amount_columns) /\ ~is_numeric_dtype(rows, c)
        THEN to_numeric(rows[r][c]) ELSE rows[r][c]]]

\* read_employee_data: the frame, or the ValueError it raises
read_employee_data(wb) ==
  LET mc == missing_columns(wb.columns)
      Bad(c) == invalid_values(wb.rows, c) > 0
      bad == SelectSeq(amount_columns, Bad)
  IN IF mc # <<>>
     THEN [df |-> <<>>, error |-> [kind |-> "columns", names |-> mc, n |-> 0]]
     ELSE IF bad # <<>>
     THEN [df |-> <<>>,
           error |-> [kind |-> "values", names |-> <<bad[1]>>,
                      n |-> invalid_values(wb.rows, bad[1])]]
     ELSE [df |-> coerce(wb.rows), error |-> NoError]

\* calculate_net_salary: NaN propagates through the arithmetic
calculate_net_salary(row) ==
  IF \E c \in Range(amount_columns) : row[c].k # "num"
  THEN NaN
  ELSE Num(row["Basic Salary"].v + row["Allowances"].v - row["Deductions"].v)

\* --------------------------------------------------------------- workbooks
AllColumns == Range(required_columns) \cup {NetColumn}

\* the number a plain amount cell of each column holds
SampleAmount ==
  [c \in Range(amount_columns) \cup {NetColumn} |->
     CASE c = "Basic Salary" -> 5
       [] c = "Allowances" -> 2
       [] c = "Deductions" -> 1
       [] OTHER -> 9]

OddCells == {NumStr(3), Str(0), NaN}

CompleteHeaders == {Range(required_columns), AllColumns}

PlainCell(c, r, id, email) ==
  CASE c = "Employee ID" -> Str(id)
    [] c = "Name" -> Str(100 + r)
    [] c = "Email" -> email
    [] OTHER -> Num(SampleAmount[c])

\* workbooks whose header lacks a required column, with plain rows over the
\* columns that are there
IncompleteWorkbooks ==
  UNION {
    {[read |-> TRUE, columns |-> h,
      rows |-> [r \in 1..n |-> [c \in h |-> PlainCell(c, r, r, Str(200 + r))]]] :
        n \in 0..MaxRows}
    : h \in {x \in SUBSET AllColumns : Range(required_columns) \ x # {}}}

\* workbooks with plain amounts; employee IDs may repeat, addresses may lack
RecordWorkbooks ==
  UNION {UNION {
    {[read |-> TRUE, columns |-> h,
      rows |-> [r \in 1..n |-> [c \in h |-> PlainCell(c, r, ids[r], emails[r])]]] :
        ids \in [1..n -> 1..n], emails \in [1..n -> {Str(200), NaN}]}
    : n \in 0..MaxRows} : h \in CompleteHeaders}

\* workbooks with distinct employee IDs and addresses, and up to MaxOdd
\* amount cells that are not plain numbers
AmountWorkbooks ==
  UNION {UNION {UNION {
    {[read |-> TRUE, columns |-> h,
      rows |-> [r \in 1..n |-> [c \in h |->
                  IF <<r, c>> \in S THEN odd[<<r, c>>]
                  ELSE PlainCell(c, r, r, Str(200 + r))]]] :
        odd \in [S -> OddCells]}
    : S \in {T \in SUBSET ((1..n) \X Range(amount_columns)) : Cardinality(T) <= MaxOdd}}
    : n \in 1..MaxRows} : h \in CompleteHeaders}

Workbooks == IncompleteWorkbooks \cup RecordWorkbooks \cup AmountWorkbooks

NoWorkbook == [read |-> FALSE, columns |-> {}, rows |-> <<>>]

\* ------------------------------------------------------------------ logger
\* one record of payroll_processing.log: the message, the row it names, the
\* exception it reports, and the two counts of the closing message
Entry(msg, rec, cause) == [msg |-> msg, rec |-> rec, cause |-> cause, s |-> 0, f |-> 0]
Tally(s, f) == [msg |-> "completed", rec |-> 0, cause |-> "", s |-> s, f |-> f]

\* ---------------------------------------------------------------- renderer
\* row.to_dict() of the row the loop is at
employee_data == df[i]

\* mutant of save: a file that exists is kept
save_keep(fs, f) ==
  IF \E g \in fs : g.name = f.name THEN fs ELSE fs \cup {f}

\* canvas.save(): the file at the path is written, replacing what was there
save(fs, f) == {g \in fs : g.name # f.name} \cup {f}

\* generate_payslip_with_design: the path of the document, or the exception.
\* disk_ok is whether the output directory can be made and written to
generate_payslip_with_design(row, disk_ok) ==
  IF ~disk_ok
  THEN [ok |-> FALSE, path |-> 0, cause |-> "OSError"]
  ELSE IF NetColumn \notin DOMAIN row
  THEN [ok |-> FALSE, path |-> 0, cause |-> "KeyError"]
  ELSE [ok |-> TRUE, path |-> row["Employee ID"].v, cause |-> ""]

\* ---------------------------------------------------------------- delivery
\* send_payslip_via_email: the message submitted, or the exception. yagmail
\* rejects a recipient that is not a text (a blank Email cell is NaN);
\* accepted is whether the mail host takes the session and the message
send_payslip_via_email(config, row, path, accepted) ==
  IF row["Email"].k # "str"
  THEN [ok |-> FALSE, cause |-> "YagInvalidEmailAddress", mail |-> <<>>]
  ELSE IF ~accepted
  THEN [ok |-> FALSE, cause |-> "SMTPException", mail |-> <<>>]
  ELSE [ok |-> TRUE, cause |-> "",
        mail |-> <<[to |-> row["Email"].v, attachment |-> path,
                    host |-> config["SMTP_SERVER"],
                    port |-> to_int(config["SMTP_PORT"])]>>]

\* ------------------------------------------------------------ orchestrator
Init ==
  /\ env \in Environments
  /\ pc = "setup"
  /\ workbook = NoWorkbook
  /\ df = <<>>
  /\ email_config = [v \in Range(required_vars) |-> None]
  /\ success_count = 0
  /\ failure_count = 0
  /\ i = 0
  /\ pdf_path = 0
  /\ files = {}
  /\ outbox = <<>>
  /\ log = <<>>
  /\ error = NoError

\* mutants of handle_failure: the batch stops; the record is tried again
handle_failure_stop ==
  /\ failure_count' = failure_count + 1
  /\ i' = Len(df) + 1
  /\ pc' = "loop"

handle_failure_retry ==
  /\ failure_count' = failure_count + 1
  /\ i' = i
  /\ pc' = "loop"

\* the except clause of the loop: count the failure, go to the next row
handle_failure ==
  /\ failure_count' = failure_count + 1
  /\ i' = i + 1
  /\ pc' = "loop"

\* mutant of handle_success: the success is not counted
handle_success_lost ==
  /\ success_count' = success_count
  /\ i' = i + 1
  /\ pc' = "loop"

\* the end of the try block of the loop: count the success, go to the next row
handle_success ==
  /\ success_count' = success_count + 1
  /\ i' = i + 1
  /\ pc' = "loop"

\* setup_environment, and the outer except clause when it raises
SetupEnvironment ==
  /\ pc = "setup"
  /\ LET mv == missing_vars(env)
     IN IF mv # <<>>
        THEN /\ error' = [kind |-> "env", names |-> mv, n |-> 0]
             /\ log' = Append(log, Entry("overall failed", 0, "ValueError"))
             /\ pc' = "fatal"
        ELSE /\ pc' = "load"
             /\ UNCHANGED <<error, log>>
  /\ UNCHANGED <<env, workbook, df, email_config, success_count, failure_count,
                 i, pdf_path, files, outbox>>

\* read_employee_data on the input file, then the mail configuration and the
\* two counters; the outer except clause when the load raises
ReadEmployeeData ==
  /\ pc = "load"
  /\ \E wb \in Workbooks :
       LET r == read_employee_data(wb)
       IN /\ workbook' = wb
          /\ IF r.error.kind # "none"
             THEN /\ error' = r.error
                  /\ log' = log \o <<Entry("read failed", 0, "ValueError"),
                                     Entry("overall failed", 0, "ValueError")>>
                  /\ pc' = "fatal"
                  /\ UNCHANGED <<df, email_config, success_count, failure_count, i>>
             ELSE /\ df' = r.df
                  /\ email_config' = build_email_config(env)
                  /\ success_count' = 0
                  /\ failure_count' = 0
                  /\ i' = 1
                  /\ pc' = "loop"
                  /\ UNCHANGED <<error, log>>
  /\ UNCHANGED <<env, pdf_path, files, outbox>>

\* one row of the loop, first half: generate_payslip_with_design
Render ==
  /\ pc = "loop"
  /\ i <= Len(df)
  /\ \E disk_ok \in BOOLEAN :
       LET r == generate_payslip_with_design(employee_data, disk_ok)
       IN IF r.ok
          THEN /\ files' = save(files, [name |-> r.path, rec |-> i, data |-> employee_data])
               /\ pdf_path' = r.path
               /\ log' = Append(log, Entry("generated", i, ""))
               /\ pc' = "deliver"
               /\ UNCHANGED <<i, failure_count>>
          ELSE /\ log' = log \o <<Entry("generate failed", i, r.cause),
                                  Entry("record failed", i, r.cause)>>
               /\ handle_failure
               /\ UNCHANGED <<files, pdf_path>>
  /\ UNCHANGED <<env, workbook, df, email_config, success_count, outbox, error>>

\* one row of the loop, second half: send_payslip_via_email
Deliver ==
  /\ pc = "deliver"
  /\ \E accepted \in BOOLEAN :
       LET r == send_payslip_via_email(email_config, employee_data, pdf_path, accepted)
       IN IF r.ok
          THEN /\ outbox' = outbox \o r.mail
               /\ log' = Append(log, Entry("sent", i, ""))
               /\ handle_success
               /\ UNCHANGED failure_count
          ELSE /\ log' = log \o <<Entry("send failed", i, r.cause),
                                  Entry("record failed", i, r.cause)>>
               /\ handle_failure
               /\ UNCHANGED <<outbox, success_count>>
  /\ UNCHANGED <<env, workbook, df, email_config, pdf_path, files, error>>

\* after the last row: the closing message with the two counts
Summary ==
  /\ pc = "loop"
  /\ i > Len(df)
  /\ log' = Append(log, Tally(success_count, failure_count))
  /\ pc' = "done"
  /\ UNCHANGED <<env, workbook, df, email_config, success_count, failure_count,
                 i, pdf_path, files, outbox, error>>

Next == SetupEnvironment \/ ReadEmployeeData \/ Render \/ Deliver \/ Summary

Spec == Init /\ [][Next]_vars

\* every step of process_payroll is taken once it can be: the process runs on
\* and every render and deliver call returns or raises
FairSpec == Spec /\ WF_vars(Next)

\* ------------------------------------------------- what the log tells
Records == 1..Len(df)
Count(msg, r) == Cardinality({k \in DOMAIN log : log[k].msg = msg /\ log[k].rec = r})
RenderAttempts(r) == Count("generated", r) + Count("generate failed", r)
DeliverAttempts(r) == Count("sent", r) + Count("send failed", r)

\* the state of a record in the state machine of the orchestrator
State(r) ==
  IF Count("sent", r) > 0 THEN "Delivered"
  ELSE IF Count("record failed", r) > 0 THEN "Failed"
  ELSE IF Count("generated", r) > 0 THEN "Rendered"
  ELSE "Pending"

UnsetVars == {v \in Range(required_vars) : env[v] = None}
AbsentColumns == Range(required_columns) \ workbook.columns
NothingProcessed ==
  /\ df = <<>>
  /\ files = {}
  /\ outbox = <<>>
  /\ success_count = 0
  /\ failure_count = 0
  /\ \A k \in DOMAIN log : log[k].msg \in {"read failed", "overall failed"}

\* ------------------------------------------------------------------ claims

\* C1: once setup and load have succeeded, an exception of the render or of
\* the delivery of a record is counted as exactly one failure of that record
\* and does not stop the batch: at the summary every record has had its
\* render, every rendered record its delivery, and the counters are the
\* numbers of delivered and of failed records.
C1_FailureIsolated ==
  pc = "done" =>
    /\ \A r \in Records :
         /\ RenderAttempts(r) = 1
         /\ Count("generated", r) = 1 => DeliverAttempts(r) = 1
         /\ Count("record failed", r)
              = Count("generate failed", r) + Count("send failed", r)
         /\ Count("record failed", r) <= 1
    /\ failure_count = Cardinality({r \in Records : State(r) = "Failed"})
    /\ success_count = Cardinality({r \in Records : State(r) = "Delivered"})

C1_Witness ==
  /\ pc = "done"
  /\ Len(df) >= 2
  /\ State(1) = "Failed"
  /\ State(2) = "Delivered"

\* C2: the record handed to the renderer, for an input with exactly the six
\* required columns, has Net Salary populated with
\* Basic Salary + Allowances - Deductions.
C2_NetSalaryPopulated ==
  (pc = "loop" /\ i <= Len(df) /\ workbook.columns = Range(required_columns)) =>
    /\ NetColumn \in DOMAIN employee_data
    /\ employee_data[NetColumn] = calculate_net_salary(employee_data)

\* C3: k >= 1 valid records plus one record without an address, distinct
\* employee IDs, every delivery accepted and the disk writable: the run
\* reports k successes and 1 failure and leaves exactly k files.
C3_Input ==
  /\ workbook.read
  /\ AbsentColumns = {}
  /\ Len(workbook.rows) >= 2
  /\ Cardinality({r \in DOMAIN workbook.rows : workbook.rows[r]["Email"] = NaN}) = 1
  /\ \A r, q \in DOMAIN workbook.rows :
       workbook.rows[r]["Employee ID"] = workbook.rows[q]["Employee ID"] => r = q
  /\ \A r \in DOMAIN workbook.rows : \A c \in Range(amount_columns) :
       workbook.rows[r][c].k = "num"

C3_EndToEnd ==
  (/\ pc = "done"
   /\ C3_Input
   /\ \A k \in DOMAIN log : log[k].cause \notin {"OSError", "SMTPException"}) =>
    /\ success_count = Len(workbook.rows) - 1
    /\ failure_count = 1
    /\ Cardinality(files) = Len(workbook.rows) - 1

\* C4: with any required mail variable unset the run fails with the
\* configuration error naming the unset variables, before the input is read
\* and before any record is processed: nothing rendered, delivered, written,
\* counted or summarised.
C4_ConfigFailsFast ==
  UnsetVars # {} =>
    /\ pc \in {"setup", "fatal"}
    /\ pc = "fatal" => (error.kind = "env" /\ Range(error.names) = UnsetVars)
    /\ ~workbook.read
    /\ NothingProcessed

C4_Witness ==
  /\ pc = "fatal"
  /\ error.kind = "env"
  /\ UnsetVars = {"SMTP_PORT", "EMAIL_PASSWORD"}

\* C5: an input that lacks required columns fails with the schema error that
\* names exactly the absent required columns, and the run stops with no
\* record processed and no file produced; the schema error is raised for no
\* other input.
C5_SchemaError ==
  /\ (workbook.read /\ AbsentColumns # {}) =>
       /\ pc = "fatal"
       /\ error.kind = "columns"
       /\ Range(error.names) = AbsentColumns
       /\ NothingProcessed
  /\ error.kind = "columns" => (workbook.read /\ AbsentColumns # {})

C5_Witness ==
  /\ pc = "fatal"
  /\ error.kind = "columns"
  /\ Cardinality(AbsentColumns) >= 2
  /\ workbook.columns \ Range(required_columns) # {}
  /\ Len(workbook.rows) >= 1

\* C6: an amount column with N >= 1 cells that are no number makes the load
\* fail with the data-validation error that reports such a column and its
\* count, nothing is loaded or processed, and a load succeeds only if every
\* amount cell of every row is a number.
NotANumber(col) ==
  {r \in DOMAIN workbook.rows : workbook.rows[r][col].k \in {"str", "nan"}}

C6_DataValidation ==
  (workbook.read /\ AbsentColumns = {}) =>
    /\ (\E c \in Range(amount_columns) : NotANumber(c) # {}) =>
         /\ pc = "fatal"
         /\ error.kind = "values"
         /\ NothingProcessed
    /\ error.kind = "values" =>
         /\ NotANumber(error.names[1]) # {}
         /\ error.n = Cardinality(NotANumber(error.names[1]))
    /\ pc # "fatal" =>
         \A c \in Range(amount_columns) : \A r \in DOMAIN workbook.rows :
           workbook.rows[r][c].k \in {"num", "numstr"}

\* C7: every record goes Pending -> Rendered -> Delivered, or to Failed from
\* Pending or Rendered, and nothing else; a delivery only after the record's
\* own render succeeded; render and delivery at most once per record; only
\* delivered records are counted as successes; a record starts only when the
\* record before it is Delivered or Failed.
C7_Order ==
  /\ \A r \in Records :
       /\ RenderAttempts(r) <= 1
       /\ DeliverAttempts(r) <= 1
       /\ DeliverAttempts(r) = 1 => Count("generated", r) = 1
       /\ (r > 1 /\ RenderAttempts(r) > 0) => State(r - 1) \in {"Delivered", "Failed"}
  /\ success_count = Cardinality({q \in Records : State(q) = "Delivered"})

C7_Transitions ==
  {<<"Pending", "Rendered">>, <<"Rendered", "Delivered">>,
   <<"Pending", "Failed">>, <<"Rendered", "Failed">>}

C7_Step ==
  \A r \in 1..Len(df') :
    State(r)' # State(r) => <<State(r), State(r)'>> \in C7_Transitions

C7_StateMachine == [](C7_Order) /\ [][C7_Step]_vars

C7_Witness ==
  /\ pc = "done"
  /\ Len(df) >= 2
  /\ State(1) = "Delivered"
  /\ State(2) = "Failed"
  /\ Count("generated", 2) = 1

\* C8: a run whose setup and load succeed ends with the summary; in the loop
\* the two counters add up to the number of rows finished and never
\* decrease; at the summary they add up to the number of rows loaded and are
\* what the summary reports; a run that fails fatally has no summary and no
\* file.
C8_Counts ==
  /\ pc \in {"loop", "deliver"} => success_count + failure_count = i - 1
  /\ pc = "done" =>
       /\ success_count + failure_count = Len(df)
       /\ log[Len(log)] = Tally(success_count, failure_count)
  /\ pc = "fatal" =>
       /\ files = {}
       /\ \A k \in DOMAIN log : log[k].msg # "completed"

C8_Monotone ==
  /\ success_count' >= success_count
  /\ failure_count' >= failure_count

C8_Summary ==
  /\ [](C8_Counts)
  /\ [][C8_Monotone]_vars
  /\ (pc = "loop") ~> (pc = "done")

C8_Witness ==
  /\ pc = "done"
  /\ success_count >= 1
  /\ failure_count >= 1

Rendered == {r \in Records : Count("generated", r) > 0}

C10_Overwrite ==
  /\ Cardinality(files) = Cardinality({df[r]["Employee ID"].v : r \in Rendered})
  /\ \A r \in Rendered : \E f \in files : f.name = df[r]["Employee ID"].v
  /\ \A f \in files :
       /\ f.rec \in Rendered
       /\ f.name = df[f.rec]["Employee ID"].v
       /\ f.data = df[f.rec]
       /\ \A r \in Rendered : df[r]["Employee ID"].v = f.name => r <= f.rec

C10_Witness ==
  /\ pc = "done"
  /\ Cardinality(Rendered) = 2
  /\ Cardinality(files) = 1
  /\ \E f \in files : f.rec = 2

====
